---- MODULE Spec2Model ----
(***************************************************************************)
(* Model of the urlMap short-URL store (package main, src/src/store.go and *)
(* src/src/key.go): the primary URLStore with its save queue, log file and *)
(* saveLoop, the ProxyStore replica with its local cache and RPC client,   *)
(* and the request goroutines that call Put and Get on either of them.     *)
(***************************************************************************)
EXTENDS Integers, Sequences, FiniteSets, TLC

(***************************************************************************)
(* Bounds of the model.                                                    *)
(***************************************************************************)
\* request goroutines on the primary (HTTP handlers Add / Redirect)
NumPrimaryCallers == 2
\* request goroutines on the replica
NumReplicaCallers == 2
\* how often the primary process is stopped and constructed again
MaxRestarts == 1
\* capacity of the save channel; 1000 in store.go:43, scaled down so that a
\* full channel is reachable with the callers above
saveQueueLength == 2

PCallers == 1..NumPrimaryCallers
RCallers == (NumPrimaryCallers + 1)..(NumPrimaryCallers + NumReplicaCallers)
Callers == PCallers \cup RCallers

(***************************************************************************)
(* key.go                                                                  *)
(***************************************************************************)
keyChar ==
  << "0","1","2","3","4","5","6","7","8","9",
     "A","B","C","D","E","F","G","H","I","J","K","L","M",
     "N","O","P","Q","R","S","T","U","V","W","X","Y","Z",
     "a","b","c","d","e","f","g","h","i","j","k","l","m",
     "n","o","p","q","r","s","t","u","v","w","x","y","z" >>

\* A key is the sequence of its characters; genKey either returns a key or
\* panics (index out of range).
Panic == [panic |-> TRUE, key |-> << >>]
Returns(k) == [panic |-> FALSE, key |-> k]

\* the loop of genKey (key.go:13-19) on slice s (0-based index i), ending
\* with string(s[i:])
RECURSIVE genKeyLoop(_, _, _)
genKeyLoop(n, s, i) ==
  IF n > 0 /\ i >= 0
  THEN LET i1 == i - 1
           j  == n % Len(keyChar)
           n1 == (n - j) \div Len(keyChar)
       IN  IF i1 < 0 \/ i1 >= Len(s)
           THEN Panic                       \* s[i] = ... out of range
           ELSE genKeyLoop(n1, [s EXCEPT ![i1 + 1] = keyChar[j + 1]], i1)
  ELSE Returns(SubSeq(s, i + 1, Len(s)))

\* genKey(n) (key.go:5-20): s := make([]byte, 0, n) has length 0, i := len(s)
genKey(n) ==
  IF n = 0
  THEN Returns(<< keyChar[1] >>)
  ELSE genKeyLoop(n, << >>, 0)

(***************************************************************************)
(* Values                                                                  *)
(***************************************************************************)
\* a URL that is not valid UTF-8 (a form value such as %FF) and what
\* encoding/json writes for it (the replacement rune)
InvalidUTF8 == "%FF"
Replacement == "U+FFFD"
\* the long URLs the callers submit
URLs == {"a.com", InvalidUTF8}
\* the keys asked for with Get
GetKeys == { << "0" >>, << "1" >> }
\* zero value of a Go string (the caller's `var url string`, `var key string`)
EmptyString == << >>
NoURL == ""

Nil == "nil"
ErrKeyNotFound == "key not found"
ErrAlreadyExists == "shortURL already exists"
ErrShutdown == "connection is shut down"

(***************************************************************************)
(* store.go: the map operations, as functions of the map they act on.      *)
(* Each runs under s.mu (RLock for Get and Count, Lock for Set), so each   *)
(* is one atomic step of the goroutine that calls it.                      *)
(***************************************************************************)
NoEntries == [k \in {} |-> NoURL]

\* Get that answers an absent key with the zero value and no error
GetDefault(m, k, out) ==
  [url |-> IF k \in DOMAIN m THEN m[k] ELSE NoURL, err |-> Nil]

\* URLStore.Get(key, url): the new value of *url and the error returned
Get(m, k, out) ==
  IF k \in DOMAIN m
  THEN [url |-> m[k], err |-> Nil]
  ELSE [url |-> out, err |-> ErrKeyNotFound]

\* Set without the presence check
SetOverwrite(m, shortURL, longURL) ==
  [urls |-> (shortURL :> longURL) @@ m, err |-> Nil]

\* Set that reports a present key but has already stored the new value
SetClobber(m, shortURL, longURL) ==
  [urls |-> (shortURL :> longURL) @@ m,
   err  |-> IF shortURL \in DOMAIN m THEN ErrAlreadyExists ELSE Nil]

\* URLStore.Set(shortURL, longURL): the new map and the error returned
Set(m, shortURL, longURL) ==
  IF shortURL \in DOMAIN m
  THEN [urls |-> m, err |-> ErrAlreadyExists]
  ELSE [urls |-> (shortURL :> longURL) @@ m, err |-> Nil]

\* URLStore.Count()
Count(m) == Cardinality(DOMAIN m)

\* the Record that json.Encoder writes for r, as json.Decoder reads it back:
\* strings are coerced to valid UTF-8
Encode(r) ==
  [Key |-> r.Key,
   URL |-> IF r.URL = InvalidUTF8 THEN Replacement ELSE r.URL,
   ok  |-> TRUE]

\* an incomplete or malformed object in the log file
Malformed == [Key |-> EmptyString, URL |-> NoURL, ok |-> FALSE]

\* the log files a store may be constructed from
InitLogs ==
  { << >>,
    << Encode([Key |-> << "0" >>, URL |-> "a.com"]) >>,
    << Encode([Key |-> << "0" >>, URL |-> "a.com"]),
       Encode([Key |-> << "1" >>, URL |-> "b.com"]) >>,
    << Encode([Key |-> << "0" >>, URL |-> "a.com"]), Malformed >> }

(***************************************************************************)
(* State                                                                   *)
(***************************************************************************)
VARIABLES
  hasFile,     \* filename != "" in NewURLStore: s.save is not nil
  phase,       \* primary process: "loading" (in NewURLStore), "serving", "down"
  loadPos,     \* position of the json.Decoder of load in the log file
  openFailed,  \* os.Open failed in load of this process
  urls,        \* URLStore.urls of the primary
  save,        \* buffered contents of the channel s.save
  log,         \* contents of the log file
  writeFailed, \* e.Encode failed in saveLoop of this process
  restarts,    \* number of times the primary was constructed again
  orderly,     \* the last stop found every Put returned and the queue drained
  old,         \* the entries Put had returned when the primary was last stopped
  mu,          \* URLStore.mu of the primary, a sync.RWMutex
  installs,    \* history: the keys in the order Set inserted them under s.mu
  cache,       \* ProxyStore.urls.urls of the replica
  client,      \* ProxyStore.client: "none" (not constructed), "nil", "ok", "shutdown"
  pc,          \* position of each request goroutine
  op,          \* the operation it runs: "Put", "Get" or "none"
  key,         \* its key variable
  url,         \* its url variable
  cnt,         \* the value s.Count() returned to it
  err,         \* the error returned to it
  calls,       \* number of s.client.Call it made
  hit,         \* its ProxyStore.Get found the key in the local cache
  pushed       \* the records it sent on s.save

pvars == << hasFile, phase, loadPos, openFailed, urls, save, log, writeFailed,
            restarts, orderly, old, mu, installs >>
rvars == << cache, client >>
cvars == << pc, op, key, url, cnt, err, calls, hit, pushed >>
vars == << pvars, rvars, cvars >>

InPut == {"put_count", "put_set", "put_save"}

\* the zero value of sync.RWMutex: no writer holds it, no reader holds it,
\* no call of Lock has announced itself
Unlocked == [writer |-> FALSE, readers |-> 0, pending |-> FALSE]

\* NewURLStore(filename) is entered: empty map, the log file as it is on disk
Init ==
  /\ hasFile \in BOOLEAN
  /\ log \in (IF hasFile THEN InitLogs ELSE { << >> })
  /\ phase = IF hasFile THEN "loading" ELSE "serving"
  /\ loadPos = 1
  /\ openFailed = FALSE
  /\ urls = NoEntries
  /\ save = << >>
  /\ writeFailed = FALSE
  /\ restarts = 0
  /\ orderly = FALSE
  /\ old = {}
  /\ mu = Unlocked
  /\ installs = << >>
  /\ cache = NoEntries
  /\ client = "none"
  /\ pc = [c \in Callers |-> "idle"]
  /\ op = [c \in Callers |-> "none"]
  /\ key = [c \in Callers |-> EmptyString]
  /\ url = [c \in Callers |-> NoURL]
  /\ cnt = [c \in Callers |-> 0]
  /\ err = [c \in Callers |-> Nil]
  /\ calls = [c \in Callers |-> 0]
  /\ hit = [c \in Callers |-> FALSE]
  /\ pushed = [c \in Callers |-> << >>]

(***************************************************************************)
(* NewURLStore: load, then the server and saveLoop start                   *)
(***************************************************************************)
\* load: os.Open fails (store.go:131-135); the store starts empty
LoadOpenFail ==
  /\ phase = "loading" /\ loadPos = 1
  /\ phase' = "serving"
  /\ openFailed' = TRUE
  /\ UNCHANGED << mu, installs, hasFile, loadPos, urls, save, log, writeFailed, restarts,
                  orderly, old, rvars, cvars >>

\* load that throws the decoded records away when the log ends in a
\* malformed object
LoadStepDiscard ==
  /\ phase = "loading"
  /\ IF loadPos <= Len(log) /\ log[loadPos].ok
     THEN /\ urls' = Set(urls, log[loadPos].Key, log[loadPos].URL).urls
          /\ installs' = IF log[loadPos].Key \in DOMAIN urls THEN installs
                          ELSE Append(installs, log[loadPos].Key)
          /\ loadPos' = loadPos + 1
          /\ phase' = phase
     ELSE /\ phase' = "serving"
          /\ urls' = IF loadPos <= Len(log) THEN NoEntries ELSE urls
          /\ installs' = IF loadPos <= Len(log) THEN << >> ELSE installs
          /\ loadPos' = loadPos
  /\ UNCHANGED << mu, hasFile, openFailed, save, log, writeFailed, restarts,
                  orderly, old, rvars, cvars >>

\* load: one d.Decode(&r) of the loop (store.go:140-145): a record is Set
\* (its error ignored); io.EOF or a decoding error ends the loop
LoadStep ==
  /\ phase = "loading"
  /\ IF loadPos <= Len(log) /\ log[loadPos].ok
     THEN /\ urls' = Set(urls, log[loadPos].Key, log[loadPos].URL).urls
          /\ installs' = IF log[loadPos].Key \in DOMAIN urls THEN installs
                          ELSE Append(installs, log[loadPos].Key)
          /\ loadPos' = loadPos + 1
          /\ phase' = phase
     ELSE /\ phase' = "serving"
          /\ UNCHANGED << urls, installs, loadPos >>
  /\ UNCHANGED << mu, hasFile, openFailed, save, log, writeFailed, restarts,
                  orderly, old, rvars, cvars >>

\* saveLoop: r := <-s.save; e.Encode(r) appends r to the file
SaveLoopWrite ==
  /\ phase = "serving" /\ hasFile
  /\ save # << >>
  /\ save' = Tail(save)
  /\ log' = Append(log, Encode(Head(save)))
  /\ UNCHANGED << mu, installs, hasFile, phase, loadPos, openFailed, urls, writeFailed,
                  restarts, orderly, old, rvars, cvars >>

\* saveLoop: e.Encode(r) fails (the file could not be opened or written):
\* the error is logged and the record is gone
SaveLoopFail ==
  /\ phase = "serving" /\ hasFile
  /\ save # << >>
  /\ save' = Tail(save)
  /\ writeFailed' = TRUE
  /\ UNCHANGED << mu, installs, hasFile, phase, loadPos, openFailed, urls, log, restarts,
                  orderly, old, rvars, cvars >>

(***************************************************************************)
(* URLStore.Put, run by a request goroutine of the primary or by the       *)
(* goroutine net/rpc starts for a replica's Store.Put                      *)
(***************************************************************************)
Serving(c) == phase = "serving" /\ (c \in RCallers => client = "ok")

\* every Put of this primary process has returned and nothing is queued
AllPutsReturned ==
  /\ save = << >>
  /\ \A c \in Callers :
       op[c] = "Put" => pc[c] \notin InPut \cup {"panicked"}

\* Add handler on the primary: store.Put(&url, &key) is entered
PutStart(c, u) ==
  /\ c \in PCallers /\ pc[c] = "idle" /\ phase = "serving"
  /\ pc' = [pc EXCEPT ![c] = "put_count"]
  /\ op' = [op EXCEPT ![c] = "Put"]
  /\ url' = [url EXCEPT ![c] = u]
  /\ UNCHANGED << pvars, rvars, key, cnt, err, calls, hit, pushed >>

\* s.Count() of store.go:118
PutCount(c) ==
  /\ pc[c] = "put_count" /\ Serving(c)
  /\ cnt' = [cnt EXCEPT ![c] = Count(urls)]
  /\ pc' = [pc EXCEPT ![c] = "put_set"]
  /\ UNCHANGED << pvars, rvars, op, key, url, err, calls, hit, pushed >>

\* the state of the primary after an uncaught panic in a goroutine of
\* net/rpc: the process is gone, and with it the replica's connection
Crashed ==
  /\ phase' = "down"
  /\ urls' = NoEntries
  /\ installs' = << >>
  /\ save' = << >>
  /\ client' = "shutdown"

\* the request goroutines of the primary end with the process
Killed(c) == c \in PCallers /\ pc[c] \in InPut

\* *key = genKey(...); s.Set(key, url) of store.go:118-121.
\* genKey panics: net/http recovers the panic of a handler goroutine, the
\* goroutine net/rpc started for a remote call takes the process down.
PutSet(c) ==
  /\ pc[c] = "put_set" /\ Serving(c)
  /\ LET g == genKey(cnt[c])
         r == Set(urls, g.key, url[c])
     IN  IF g.panic
         THEN IF c \in PCallers
              THEN /\ pc' = [pc EXCEPT ![c] = "panicked"]
                   /\ url' = [url EXCEPT ![c] = NoURL]
                   /\ pushed' = [pushed EXCEPT ![c] = << >>]
                   /\ UNCHANGED << pvars, rvars, key, err >>
              ELSE /\ Crashed
                   /\ pc' = [d \in Callers |->
                               IF Killed(d) THEN "dead" ELSE pc[d]]
                   /\ UNCHANGED << url, pushed >>
                   /\ UNCHANGED << mu, hasFile, loadPos, openFailed, log,
                                   writeFailed, restarts, orderly, old, cache,
                                   key, err >>
         ELSE /\ key' = [key EXCEPT ![c] = g.key]
              /\ urls' = r.urls
              /\ installs' = IF r.err = Nil THEN Append(installs, g.key)
                              ELSE installs
              /\ IF r.err = Nil
                 THEN /\ pc' = [pc EXCEPT ![c] =
                                  IF c \in PCallers THEN "returned"
                                  ELSE "rput_cache"]
                      /\ err' = [err EXCEPT ![c] = Nil]
                 ELSE /\ pc' = [pc EXCEPT ![c] = "put_save"]
                      /\ err' = err
              /\ UNCHANGED << url, pushed >>
              /\ UNCHANGED << mu, hasFile, phase, loadPos, openFailed, save, log,
                              writeFailed, restarts, orderly, old, rvars >>
  /\ cnt' = [cnt EXCEPT ![c] = 0]
  /\ UNCHANGED << op, calls, hit >>

\* after a failed Set (store.go:122-124): s.save <- record{*key, *url} when
\* s.save is not nil, blocking while the channel is full; then the loop
\* starts again
PutSave(c) ==
  /\ pc[c] = "put_save" /\ Serving(c)
  /\ IF hasFile
     THEN /\ Len(save) < saveQueueLength
          /\ save' = Append(save, [Key |-> key[c], URL |-> url[c]])
          /\ pushed' = [pushed EXCEPT ![c] =
                          Append(@, [Key |-> key[c], URL |-> url[c]])]
     ELSE UNCHANGED << save, pushed >>
  /\ pc' = [pc EXCEPT ![c] = "put_count"]
  /\ UNCHANGED << mu, installs, hasFile, phase, loadPos, openFailed, urls, log, writeFailed,
                  restarts, orderly, old, rvars, op, key, url, cnt, err, calls,
                  hit >>

\* Redirect handler on the primary: store.Get(&key, &url) with url == ""
PGet(c, k) ==
  /\ c \in PCallers /\ pc[c] = "idle" /\ phase = "serving"
  /\ LET r == Get(urls, k, NoURL)
     IN  /\ url' = [url EXCEPT ![c] = r.url]
         /\ err' = [err EXCEPT ![c] = r.err]
  /\ pc' = [pc EXCEPT ![c] = "returned"]
  /\ op' = [op EXCEPT ![c] = "Get"]
  /\ key' = [key EXCEPT ![c] = k]
  /\ UNCHANGED << pvars, rvars, cnt, calls, hit, pushed >>

\* the entries Put has returned to the callers of this primary process
Committed ==
  { [Key |-> key[c], URL |-> url[c]] :
      c \in { d \in PCallers : op[d] = "Put" /\ pc[d] = "returned" } }

\* the primary process is stopped (kill in demo.sh, or it is down after a
\* panic) and started again: NewURLStore on the same file. The requests of
\* the stopped process end with it.
Restart ==
  /\ restarts < MaxRestarts
  /\ restarts' = restarts + 1
  /\ orderly' = (phase = "serving" /\ AllPutsReturned /\ ~writeFailed)
  /\ old' = Committed
  /\ phase' = IF hasFile THEN "loading" ELSE "serving"
  /\ loadPos' = 1
  /\ openFailed' = FALSE
  /\ writeFailed' = FALSE
  /\ urls' = NoEntries
  /\ installs' = << >>
  /\ save' = << >>
  /\ client' = IF client = "ok" THEN "shutdown" ELSE client
  /\ pc' = [c \in Callers |-> IF c \in PCallers THEN "idle" ELSE pc[c]]
  /\ op' = [c \in Callers |-> IF c \in PCallers THEN "none" ELSE op[c]]
  /\ key' = [c \in Callers |-> IF c \in PCallers THEN EmptyString ELSE key[c]]
  /\ url' = [c \in Callers |-> IF c \in PCallers THEN NoURL ELSE url[c]]
  /\ cnt' = [c \in Callers |-> IF c \in PCallers THEN 0 ELSE cnt[c]]
  /\ err' = [c \in Callers |-> IF c \in PCallers THEN Nil ELSE err[c]]
  /\ pushed' = [c \in Callers |-> IF c \in PCallers THEN << >> ELSE pushed[c]]
  /\ UNCHANGED << mu, hasFile, log, cache, calls, hit >>

(***************************************************************************)
(* ProxyStore                                                              *)
(***************************************************************************)
\* NewProxyStore: rpc.DialHTTP reaches the serving primary
DialOK ==
  /\ client = "none" /\ phase = "serving"
  /\ client' = "ok"
  /\ UNCHANGED << pvars, cache, cvars >>

\* NewProxyStore: rpc.DialHTTP fails; the error is logged and the ProxyStore
\* is returned with a nil client
DialFail ==
  /\ client = "none"
  /\ client' = "nil"
  /\ UNCHANGED << pvars, cache, cvars >>

\* the connection to the primary breaks: every pending and later Call of the
\* rpc.Client returns an error
ConnLoss ==
  /\ client = "ok"
  /\ client' = "shutdown"
  /\ UNCHANGED << pvars, cache, cvars >>

\* ProxyStore.Get, store.go:181-183: the local cache is asked first
RGetStart(c, k) ==
  /\ c \in RCallers /\ pc[c] = "idle" /\ client # "none"
  /\ LET r == Get(cache, k, NoURL)
     IN  /\ url' = [url EXCEPT ![c] = r.url]
         /\ hit' = [hit EXCEPT ![c] = (r.err = Nil)]
         /\ pc' = [pc EXCEPT ![c] = IF r.err = Nil THEN "returned"
                                    ELSE "rget_call"]
  /\ op' = [op EXCEPT ![c] = "Get"]
  /\ key' = [key EXCEPT ![c] = k]
  /\ UNCHANGED << pvars, rvars, cnt, err, calls, pushed >>

\* ProxyStore.Get that does not look at the error of Call and caches
\* whatever url holds
RGetCallUnchecked(c) ==
  /\ pc[c] = "rget_call"
  /\ calls' = [calls EXCEPT ![c] = @ + 1]
  /\ IF client = "nil"
     THEN /\ pc' = [pc EXCEPT ![c] = "panicked"]
          /\ UNCHANGED << url, err >>
     ELSE IF client = "shutdown"
     THEN /\ pc' = [pc EXCEPT ![c] = "rget_cache"]
          /\ err' = [err EXCEPT ![c] = ErrShutdown]
          /\ url' = url
     ELSE LET r == Get(urls, key[c], NoURL)
          IN  /\ url' = [url EXCEPT ![c] = r.url]
              /\ err' = [err EXCEPT ![c] = r.err]
              /\ pc' = [pc EXCEPT ![c] = "rget_cache"]
  /\ UNCHANGED << pvars, rvars, op, key, cnt, hit, pushed >>

\* s.client.Call("Store.Get", key, url), store.go:185-187: a nil client
\* panics, a broken one returns its error, the primary answers otherwise
\* with URLStore.Get
RGetCall(c) ==
  /\ pc[c] = "rget_call"
  /\ calls' = [calls EXCEPT ![c] = @ + 1]
  /\ IF client = "nil"
     THEN /\ pc' = [pc EXCEPT ![c] = "panicked"]
          /\ UNCHANGED << url, err >>
     ELSE IF client = "shutdown"
     THEN /\ pc' = [pc EXCEPT ![c] = "returned"]
          /\ err' = [err EXCEPT ![c] = ErrShutdown]
          /\ url' = url
     ELSE LET r == Get(urls, key[c], NoURL)
          IN  /\ url' = [url EXCEPT ![c] = r.url]
              /\ err' = [err EXCEPT ![c] = r.err]
              /\ pc' = [pc EXCEPT ![c] = IF r.err = Nil THEN "rget_cache"
                                         ELSE "returned"]
  /\ UNCHANGED << pvars, rvars, op, key, cnt, hit, pushed >>

\* ProxyStore.Get that returns the remote answer without caching it
RGetCacheSkipped(c) ==
  /\ pc[c] = "rget_cache"
  /\ pc' = [pc EXCEPT ![c] = "returned"]
  /\ UNCHANGED << pvars, rvars, op, key, url, cnt, err, calls, hit, pushed >>

\* s.urls.Set(key, url); return nil, store.go:189-190
RGetCache(c) ==
  /\ pc[c] = "rget_cache"
  /\ cache' = Set(cache, key[c], url[c]).urls
  /\ pc' = [pc EXCEPT ![c] = "returned"]
  /\ UNCHANGED << pvars, client, op, key, url, cnt, err, calls, hit, pushed >>

\* ProxyStore.Put that returns the primary's key without caching it
RPutCacheSkipped(c) ==
  /\ pc[c] = "rput_cache"
  /\ pc' = [pc EXCEPT ![c] = "returned"]
  /\ UNCHANGED << pvars, rvars, op, key, url, cnt, err, calls, hit, pushed >>

\* s.urls.Set(key, url); return nil, store.go:199-200
RPutCache(c) ==
  /\ pc[c] = "rput_cache"
  /\ cache' = Set(cache, key[c], url[c]).urls
  /\ pc' = [pc EXCEPT ![c] = "returned"]
  /\ UNCHANGED << pvars, client, op, key, url, cnt, err, calls, hit, pushed >>

\* ProxyStore.Put is entered
RPutStart(c, u) ==
  /\ c \in RCallers /\ pc[c] = "idle" /\ client # "none"
  /\ pc' = [pc EXCEPT ![c] = "rput_call"]
  /\ op' = [op EXCEPT ![c] = "Put"]
  /\ url' = [url EXCEPT ![c] = u]
  /\ UNCHANGED << pvars, rvars, key, cnt, err, calls, hit, pushed >>

\* ProxyStore.Put that answers a URL it has cached with the cached key
\* instead of calling the primary
RPutCallCached(c) ==
  /\ pc[c] = "rput_call"
  /\ IF \E k \in DOMAIN cache : cache[k] = url[c]
     THEN /\ key' = [key EXCEPT ![c] =
                       CHOOSE k \in DOMAIN cache : cache[k] = url[c]]
          /\ pc' = [pc EXCEPT ![c] = "returned"]
          /\ UNCHANGED << calls, err >>
     ELSE /\ calls' = [calls EXCEPT ![c] = @ + 1]
          /\ key' = key
          /\ IF client = "nil"
             THEN /\ pc' = [pc EXCEPT ![c] = "panicked"]
                  /\ err' = err
             ELSE IF client = "shutdown"
             THEN /\ pc' = [pc EXCEPT ![c] = "returned"]
                  /\ err' = [err EXCEPT ![c] = ErrShutdown]
             ELSE /\ pc' = [pc EXCEPT ![c] = "put_count"]
                  /\ err' = err
  /\ UNCHANGED << pvars, rvars, op, url, cnt, hit, pushed >>

\* s.client.Call("Store.Put", url, key), store.go:195-197: the primary runs
\* URLStore.Put in a goroutine of its own
RPutCall(c) ==
  /\ pc[c] = "rput_call"
  /\ calls' = [calls EXCEPT ![c] = @ + 1]
  /\ IF client = "nil"
     THEN /\ pc' = [pc EXCEPT ![c] = "panicked"]
          /\ err' = err
     ELSE IF client = "shutdown"
     THEN /\ pc' = [pc EXCEPT ![c] = "returned"]
          /\ err' = [err EXCEPT ![c] = ErrShutdown]
     ELSE /\ pc' = [pc EXCEPT ![c] = "put_count"]
          /\ err' = err
  /\ UNCHANGED << pvars, rvars, op, key, url, cnt, hit, pushed >>

\* the pending Call returns the error of the broken connection; the reply
\* variable key is not written
RemoteFail(c) ==
  /\ c \in RCallers /\ pc[c] \in InPut /\ client = "shutdown"
  /\ pc' = [pc EXCEPT ![c] = "returned"]
  /\ err' = [err EXCEPT ![c] = ErrShutdown]
  /\ key' = [key EXCEPT ![c] = EmptyString]
  /\ cnt' = [cnt EXCEPT ![c] = 0]
  /\ UNCHANGED << pvars, rvars, op, url, calls, hit, pushed >>

\* the primary alone, with its own request goroutines
Next ==
  \/ LoadOpenFail
  \/ LoadStep
  \/ SaveLoopWrite
  \/ SaveLoopFail
  \/ Restart
  \/ \E c \in PCallers, u \in URLs : PutStart(c, u)
  \/ \E c \in PCallers : PutCount(c)
  \/ \E c \in PCallers : PutSet(c)
  \/ \E c \in PCallers : PutSave(c)
  \/ \E c \in PCallers, k \in GetKeys : PGet(c, k)

Spec == Init /\ [][Next]_vars

\* primary and replica as demo.sh starts them, the requests going to the
\* replica
NextReplica ==
  \/ LoadOpenFail
  \/ LoadStep
  \/ SaveLoopWrite
  \/ SaveLoopFail
  \/ DialOK
  \/ DialFail
  \/ ConnLoss
  \/ \E c \in RCallers : PutCount(c)
  \/ \E c \in RCallers : PutSet(c)
  \/ \E c \in RCallers : PutSave(c)
  \/ \E c \in RCallers, k \in GetKeys : RGetStart(c, k)
  \/ \E c \in RCallers : RGetCall(c)
  \/ \E c \in RCallers : RGetCache(c)
  \/ \E c \in RCallers : RPutCache(c)
  \/ \E c \in RCallers, u \in URLs : RPutStart(c, u)
  \/ \E c \in RCallers : RPutCall(c)
  \/ \E c \in RCallers : RemoteFail(c)

SpecReplica == Init /\ [][NextReplica]_vars

(***************************************************************************)
(* Properties of the primary (Spec)                                        *)
(***************************************************************************)
\* caller c enters and completes URLStore.Get in this step
GetsNow(c) == c \in PCallers /\ pc[c] = "idle" /\ op'[c] = "Get"

\* C1: round trip. Once Put(v) has returned key k with no error, every Get(k)
\* that a caller of the same store makes afterwards returns v and no error:
\* the Get steps taken do, and Get on the map of every later state would.
C1_RoundTrip ==
  [][ /\ \A c \in PCallers : \A r \in Committed :
           (GetsNow(c) /\ key'[c] = r.Key)
             => (url'[c] = r.URL /\ err'[c] = Nil)
      /\ \A r \in Committed :
           restarts' = restarts
             => Get(urls', r.Key, NoURL) = [url |-> r.URL, err |-> Nil] ]_vars

\* a Put has returned key k for v and a Get(k) has returned v
C1_Witness ==
  \E c, d \in PCallers :
    /\ op[c] = "Put" /\ pc[c] = "returned"
    /\ op[d] = "Get" /\ pc[d] = "returned"
    /\ key[d] = key[c] /\ url[d] = url[c] /\ err[d] = Nil

\* C2: key immutability. While a store lives, a key bound in its map stays
\* bound to the same value whatever Put, Set or the log replay do, and a Set
\* on a present key (by Put or by load) leaves the whole map unchanged.
C2_KeyImmutable ==
  [][ restarts' = restarts =>
        /\ \A k \in DOMAIN urls : k \in DOMAIN urls' /\ urls'[k] = urls[k]
        /\ \A c \in PCallers :
             (pc[c] = "put_set" /\ pc'[c] = "put_save") => urls' = urls
        /\ (phase = "loading" /\ loadPos' = loadPos + 1
              /\ log[loadPos].Key \in DOMAIN urls) => urls' = urls ]_vars

\* a Put was rejected by Set for a key bound to another value, which is
\* still the value of the key
C2_Witness ==
  \E c \in PCallers :
    /\ pc[c] = "put_save"
    /\ key[c] \in DOMAIN urls
    /\ urls[key[c]] # url[c]

\* C3: concurrent Puts. The Put calls that have ended have all returned a
\* key, and the keys of any two of them differ (so no two callers saw Set
\* succeed for one key).
C3_ConcurrentPutsDistinct ==
  \A c, d \in PCallers :
    (c # d /\ op[c] = "Put" /\ op[d] = "Put"
       /\ pc[c] \notin InPut /\ pc[d] \notin InPut)
      => (pc[c] = "returned" /\ pc[d] = "returned" /\ key[c] # key[d])

\* C4: on a store with a log file, a Put that has returned key k for value v
\* has sent exactly the one record (k, v) on the save channel.
C4_PutEnqueuesRecord ==
  \A c \in PCallers :
    (hasFile /\ op[c] = "Put" /\ pc[c] = "returned")
      => pushed[c] = << [Key |-> key[c], URL |-> url[c]] >>

\* C5: restart durability. A store constructed from the log of a store that
\* was stopped with every Put returned, the queue drained and no write
\* failed, holds every entry a Put had returned.
C5_RestartDurability ==
  (/\ restarts >= 1 /\ orderly /\ hasFile
   /\ phase = "serving" /\ ~openFailed
   /\ \A i \in 1..Len(log) : log[i].ok)
    => \A r \in old : Get(urls, r.Key, NoURL) = [url |-> r.URL, err |-> Nil]

\* C10: Get on an absent key returns "key not found" and changes neither the
\* map, nor the queue, nor the caller's url.
C10_GetNotFound ==
  [][ \A c \in PCallers :
        (GetsNow(c) /\ key'[c] \notin DOMAIN urls)
          => /\ err'[c] = ErrKeyNotFound
             /\ url'[c] = url[c]
             /\ urls' = urls /\ save' = save ]_vars

\* a Get for a key absent from a non-empty map has returned the error
C10_Witness ==
  \E c \in PCallers :
    /\ op[c] = "Get" /\ pc[c] = "returned"
    /\ urls # NoEntries /\ key[c] \notin DOMAIN urls
    /\ err[c] = ErrKeyNotFound /\ url[c] = NoURL

(***************************************************************************)
(* Properties of the replica (SpecReplica)                                 *)
(***************************************************************************)
\* caller c enters ProxyStore.Get in this step
RGetsNow(c) == c \in RCallers /\ pc[c] = "idle" /\ op'[c] = "Get"

\* C6: a ProxyStore.Get that misses the cache makes exactly one remote call
\* and one that hits makes none; once a Get has returned a value, the cache
\* holds it, and a Get for a cached key returns the cached value at once.
C6_ReplicaGetCalls ==
  [][ \A c \in RCallers :
        /\ (op'[c] = "Get" /\ pc'[c] \in {"rget_cache", "returned"})
             => calls'[c] = (IF hit'[c] THEN 0 ELSE 1)
        /\ (op'[c] = "Get" /\ pc'[c] = "returned" /\ err'[c] = Nil)
             => Get(cache', key'[c], NoURL) = [url |-> url'[c], err |-> Nil]
        /\ (RGetsNow(c) /\ key'[c] \in DOMAIN cache)
             => /\ pc'[c] = "returned" /\ err'[c] = Nil
                /\ calls'[c] = 0 /\ url'[c] = cache[key'[c]] ]_vars

\* a Get missed and fetched the value with one call, and a second Get for
\* the key returned it with none
C6_Witness ==
  \E c, d \in RCallers :
    /\ op[c] = "Get" /\ pc[c] = "returned" /\ err[c] = Nil
    /\ ~hit[c] /\ calls[c] = 1
    /\ op[d] = "Get" /\ pc[d] = "returned" /\ err[d] = Nil
    /\ hit[d] /\ calls[d] = 0
    /\ key[d] = key[c] /\ url[d] = url[c]

\* C7: a ProxyStore.Put has made exactly one remote call once it is past
\* the call, whatever the cache holds, and the key it returns is bound to
\* its URL in the map of the primary that minted it.
C7_ReplicaPutForwards ==
  \A c \in RCallers :
    op[c] = "Put" =>
      /\ pc[c] = "rput_call" => calls[c] = 0
      /\ pc[c] \in InPut \cup {"rput_cache", "returned"} => calls[c] = 1
      /\ (pc[c] \in {"rput_cache", "returned"} /\ err[c] = Nil
            /\ phase = "serving")
           => Get(urls, key[c], NoURL) = [url |-> url[c], err |-> Nil]

\* a Put on the replica has succeeded and another one has ended, both with
\* one remote call, while the cache held an entry
C7_Witness ==
  \E c, d \in RCallers :
    /\ c # d /\ cache # NoEntries
    /\ op[c] = "Put" /\ pc[c] = "returned" /\ err[c] = Nil /\ calls[c] = 1
    /\ op[d] = "Put" /\ pc[d] = "returned" /\ calls[d] = 1

\* C8: after a ProxyStore.Put(v) has returned key k, the cache binds k to v
\* and a Get(k) on the replica returns v at once, without a remote call.
C8_ReplicaPutCached ==
  [][ \A c \in RCallers :
        (op'[c] = "Put" /\ pc'[c] = "returned" /\ err'[c] = Nil)
          => /\ Get(cache', key'[c], NoURL) = [url |-> url'[c], err |-> Nil]
             /\ \A d \in RCallers :
                  (RGetsNow(d) /\ key'[d] = key'[c])
                    => /\ pc'[d] = "returned" /\ err'[d] = Nil
                       /\ url'[d] = url'[c] /\ calls'[d] = 0 ]_vars

\* a Put on the replica returned k and a Get(k) hit the cache
C8_Witness ==
  \E c, d \in RCallers :
    /\ op[c] = "Put" /\ pc[c] = "returned" /\ err[c] = Nil
    /\ op[d] = "Get" /\ pc[d] = "returned" /\ err[d] = Nil
    /\ key[d] = key[c] /\ url[d] = url[c] /\ hit[d] /\ calls[d] = 0

\* C9: a ProxyStore operation whose remote call failed returns the error
\* after that one call and has not touched the cache: the cache changes
\* only in the caching step of an operation whose call succeeded.
C9_RemoteFailure ==
  [][ /\ \A c \in RCallers :
           (pc'[c] = "returned" /\ err'[c] # Nil)
             => (calls'[c] = 1 /\ (pc[c] # "returned" => cache' = cache))
      /\ \A c \in RCallers :
           err'[c] # Nil => pc'[c] \notin {"rget_cache", "rput_cache"}
      /\ cache' # cache
           => \E c \in RCallers :
                /\ pc[c] \in {"rget_cache", "rput_cache"}
                /\ pc'[c] = "returned"
                /\ err[c] = Nil /\ calls[c] = 1 ]_vars

\* a Get and a Put on the replica have both returned the error of their one
\* remote call, the cache holding what it held
C9_Witness ==
  \E c, d \in RCallers :
    /\ op[c] = "Get" /\ pc[c] = "returned" /\ err[c] # Nil /\ calls[c] = 1
    /\ op[d] = "Put" /\ pc[d] = "returned" /\ err[d] # Nil /\ calls[d] = 1
    /\ key[c] \notin DOMAIN cache

(***************************************************************************)
(* Startup replay (Spec)                                                   *)
(***************************************************************************)
\* the number of well-formed records the log file l starts with
GoodPrefixLen(l) ==
  CHOOSE n \in 0..Len(l) :
    /\ \A i \in 1..n : l[i].ok
    /\ n = Len(l) \/ ~l[n + 1].ok

\* C11: startup replay. When load ends, at the end of the file or at a
\* malformed object, construction goes on to serve, and the map holds
\* exactly the well-formed records before that point when their keys are
\* distinct; when the file could not be opened the map is empty.
C11_StartupReplay ==
  [][ restarts' = restarts =>
        /\ phase = "loading" => phase' \in {"loading", "serving"}
        /\ (phase = "loading" /\ loadPos <= Len(log) /\ ~log[loadPos].ok)
             => phase' = "serving"
        /\ (phase = "loading" /\ phase' = "serving")
             => IF openFailed'
                THEN urls' = NoEntries
                ELSE LET n == GoodPrefixLen(log)
                     IN  (\A i, j \in 1..n : log[i].Key = log[j].Key => i = j)
                           => /\ DOMAIN urls' = { log[i].Key : i \in 1..n }
                              /\ \A i \in 1..n :
                                   urls'[log[i].Key] = log[i].URL ]_vars

\* a store serves after a load that stopped at a malformed object behind at
\* least one record, holding the records before it
C11_Witness ==
  /\ hasFile /\ phase = "serving" /\ ~openFailed
  /\ loadPos >= 2 /\ loadPos <= Len(log) /\ ~log[loadPos].ok
  /\ DOMAIN urls = { log[i].Key : i \in 1..(loadPos - 1) }
  /\ \A i \in 1..(loadPos - 1) : urls[log[i].Key] = log[i].URL

(***************************************************************************)
(* genKey on its own (SpecGenKey): two goroutines each call genKey with an *)
(* ordinal of their own                                                    *)
(***************************************************************************)
\* the largest ordinal genKey is called with
MaxOrdinal == 130

KeyCallers == {1, 2}

InitGenKey ==
  /\ hasFile = FALSE
  /\ log = << >>
  /\ phase = "serving"
  /\ loadPos = 1
  /\ openFailed = FALSE
  /\ urls = NoEntries
  /\ save = << >>
  /\ writeFailed = FALSE
  /\ restarts = 0
  /\ orderly = FALSE
  /\ old = {}
  /\ mu = Unlocked
  /\ installs = << >>
  /\ cache = NoEntries
  /\ client = "none"
  /\ pc = [c \in Callers |-> IF c \in KeyCallers THEN "genkey" ELSE "idle"]
  /\ op = [c \in Callers |-> "none"]
  /\ key = [c \in Callers |-> EmptyString]
  /\ url = [c \in Callers |-> NoURL]
  /\ \E m, n \in 0..MaxOrdinal :
       cnt = [c \in Callers |-> IF c = 1 THEN m ELSE IF c = 2 THEN n ELSE 0]
  /\ err = [c \in Callers |-> Nil]
  /\ calls = [c \in Callers |-> 0]
  /\ hit = [c \in Callers |-> FALSE]
  /\ pushed = [c \in Callers |-> << >>]

\* *key = genKey(n) with n == cnt[c]
GenKeyCall(c) ==
  /\ pc[c] = "genkey"
  /\ LET g == genKey(cnt[c])
     IN  /\ key' = [key EXCEPT ![c] = g.key]
         /\ pc' = [pc EXCEPT ![c] = IF g.panic THEN "panicked"
                                    ELSE "returned"]
  /\ UNCHANGED << pvars, rvars, op, url, cnt, err, calls, hit, pushed >>

NextGenKey == \E c \in KeyCallers : GenKeyCall(c)

SpecGenKey == InitGenKey /\ [][NextGenKey]_vars

\* the digits of n in base 62 over keyChar, most significant first
RECURSIVE Base62(_)
Base62(n) ==
  IF n < Len(keyChar)
  THEN << keyChar[n + 1] >>
  ELSE Append(Base62(n \div Len(keyChar)), keyChar[(n % Len(keyChar)) + 1])

\* C12: key generation. Every call genKey(n), n >= 0, returns the base-62
\* representation of n over 0-9, A-Z, a-z, most significant symbol first
\* and without padding, and two calls that return the same key were given
\* the same n.
C12_GenKeyBase62 ==
  /\ \A c \in KeyCallers :
       pc[c] # "genkey" => (pc[c] = "returned" /\ key[c] = Base62(cnt[c]))
  /\ \A c, d \in KeyCallers :
       (pc[c] = "returned" /\ pc[d] = "returned" /\ key[c] = key[d])
         => cnt[c] = cnt[d]

(***************************************************************************)
(* Records, termination and key density on the primary (Spec)              *)
(***************************************************************************)
\* C14: every Record in the save queue, and every Record the running store
\* has appended to the log, is the record of a committed entry: the map
\* binds its key to its URL.
C14_RecordsCommitted ==
  phase = "serving" =>
    /\ \A i \in 1..Len(save) :
         Get(urls, save[i].Key, NoURL) = [url |-> save[i].URL, err |-> Nil]
    /\ ~openFailed =>
         \A i \in loadPos..Len(log) :
           log[i].ok =>
             /\ log[i].Key \in DOMAIN urls
             /\ Encode([Key |-> log[i].Key, URL |-> urls[log[i].Key]]) = log[i]

\* C16: a Put that has ended has returned, and returned success: no Put
\* ends in any other way, whatever rejections Set gave it on the way.
C16_PutReturnsSuccess ==
  \A c \in PCallers :
    op[c] = "Put" =>
      /\ pc[c] \in InPut \cup {"returned"}
      /\ pc[c] = "returned" => err[c] = Nil

\* C19: dense key set. In a store that started empty the keys of the map
\* are genKey(0) .. genKey(Count() - 1), and the count a Put has just read
\* gives it a key, one that is not in the map.
C19_DenseKeys ==
  (phase = "serving" /\ loadPos = 1) =>
    /\ \A i \in 0..(Count(urls) - 1) : ~genKey(i).panic
    /\ DOMAIN urls = { genKey(i).key : i \in 0..(Count(urls) - 1) }
    /\ \A c \in PCallers :
         pc[c] = "put_set" =>
           /\ ~genKey(cnt[c]).panic
           /\ cnt[c] = Count(urls) => genKey(cnt[c]).key \notin DOMAIN urls

(***************************************************************************)
(* Cache and dial failure on the replica (SpecReplica)                     *)
(***************************************************************************)
\* C18: every entry of the replica's cache is an entry of the primary's map
\* with the same value, and so is every value a ProxyStore.Get has returned.
C18_CacheSubset ==
  /\ \A k \in DOMAIN cache :
       Get(urls, k, NoURL) = [url |-> cache[k], err |-> Nil]
  /\ \A c \in RCallers :
       (op[c] = "Get" /\ pc[c] = "returned" /\ err[c] = Nil)
         => Get(urls, key[c], NoURL) = [url |-> url[c], err |-> Nil]

\* C20: on a ProxyStore whose dial failed, every Put and every Get that
\* reaches the remote call returns an error to its caller, none ends in a
\* panic, and the cache stays empty.
C20_DialFailureIsError ==
  client = "nil" =>
    /\ cache = NoEntries
    /\ \A c \in RCallers :
         /\ pc[c] # "panicked"
         /\ calls[c] >= 1 => (pc[c] = "returned" /\ err[c] # Nil)

(***************************************************************************)
(* Concurrent Puts against the save queue (SpecPut): the primary of        *)
(* demo.sh with an empty log file, serving its own requests and those of   *)
(* the replica connected to it                                             *)
(***************************************************************************)
\* NewURLStore("store.json") has returned on an empty file and
\* NewProxyStore has dialled the primary
InitPut ==
  /\ hasFile = TRUE
  /\ log = << >>
  /\ phase = "serving"
  /\ loadPos = 1
  /\ openFailed = FALSE
  /\ urls = NoEntries
  /\ save = << >>
  /\ writeFailed = FALSE
  /\ restarts = 0
  /\ orderly = FALSE
  /\ old = {}
  /\ mu = Unlocked
  /\ installs = << >>
  /\ cache = NoEntries
  /\ client = "ok"
  /\ pc = [c \in Callers |-> "idle"]
  /\ op = [c \in Callers |-> "none"]
  /\ key = [c \in Callers |-> EmptyString]
  /\ url = [c \in Callers |-> NoURL]
  /\ cnt = [c \in Callers |-> 0]
  /\ err = [c \in Callers |-> Nil]
  /\ calls = [c \in Callers |-> 0]
  /\ hit = [c \in Callers |-> FALSE]
  /\ pushed = [c \in Callers |-> << >>]

NextPut ==
  \/ SaveLoopWrite
  \/ SaveLoopFail
  \/ \E c \in PCallers, u \in URLs : PutStart(c, u)
  \/ \E c \in RCallers, u \in URLs : RPutStart(c, u)
  \/ \E c \in RCallers : RPutCall(c)
  \/ \E c \in Callers : PutCount(c)
  \/ \E c \in Callers : PutSet(c)
  \/ \E c \in Callers : PutSave(c)
  \/ \E c \in RCallers : RPutCache(c)
  \/ \E c \in RCallers : RemoteFail(c)

SpecPut == InitPut /\ [][NextPut]_vars

\* C13: log order. Any two Records the running store has appended to the
\* log have keys that Set calls inserted, and they stand in the log in the
\* order in which those Set calls held the exclusive lock.
C13_LogOrder ==
  (phase = "serving" /\ ~openFailed) =>
    \A i, j \in loadPos..Len(log) :
      (i < j /\ log[i].ok /\ log[j].ok) =>
        \E a, b \in 1..Len(installs) :
          /\ installs[a] = log[i].Key
          /\ installs[b] = log[j].Key
          /\ a < b

\* C15: backpressure. The queue never holds more than saveQueueLength
\* records; a Put that has to enqueue on a full queue stays where it is with
\* its record; and a Put that has enqueued goes on to return: its next step
\* is not a panic and does not take the process down.
C15_Backpressure ==
  [][ /\ Len(save') <= saveQueueLength
      /\ \A c \in Callers :
           (hasFile /\ pc[c] = "put_save" /\ Len(save) = saveQueueLength
              /\ phase' = "serving")
             => /\ pc'[c] = "put_save"
                /\ key'[c] = key[c]
                /\ url'[c] = url[c]
      /\ \A c \in Callers :
           (pc[c] = "put_set" /\ pushed[c] # << >> /\ pc'[c] # pc[c])
             => /\ pc'[c] \in {"put_save", "returned", "rput_cache"}
                /\ phase' = phase ]_vars

(***************************************************************************)
(* The map operations at the level of s.mu (SpecLock): goroutines calling  *)
(* Get, Count, Set and Delete of one URLStore, each call taking the lock,  *)
(* running its body and releasing the lock on return.                      *)
(* sync.RWMutex: Lock announces itself (new RLock calls wait from then on) *)
(* and then waits for the readers that hold the lock to leave; a second    *)
(* Lock waits for the first to be released.                                *)
(***************************************************************************)
NumLockCallers == 3
LockCallers == 1..NumLockCallers

\* the fields of the primary that the map operations do not touch
fvars == << hasFile, phase, loadPos, openFailed, save, log, writeFailed,
            restarts, orderly, old >>

\* a store without a file that is serving requests, empty or holding the
\* entry of one earlier Put
InitLock ==
  /\ hasFile = FALSE
  /\ log = << >>
  /\ phase = "serving"
  /\ loadPos = 1
  /\ openFailed = FALSE
  /\ \E m \in {NoEntries, Set(NoEntries, genKey(0).key, "a.com").urls} :
       /\ urls = m
       /\ installs = IF m = NoEntries THEN << >> ELSE << genKey(0).key >>
  /\ save = << >>
  /\ writeFailed = FALSE
  /\ restarts = 0
  /\ orderly = FALSE
  /\ old = {}
  /\ mu = Unlocked
  /\ cache = NoEntries
  /\ client = "none"
  /\ pc = [c \in Callers |-> "idle"]
  /\ op = [c \in Callers |-> "none"]
  /\ key = [c \in Callers |-> EmptyString]
  /\ url = [c \in Callers |-> NoURL]
  /\ cnt = [c \in Callers |-> 0]
  /\ err = [c \in Callers |-> Nil]
  /\ calls = [c \in Callers |-> 0]
  /\ hit = [c \in Callers |-> FALSE]
  /\ pushed = [c \in Callers |-> << >>]

\* Get(key, url): s.mu.RLock() of store.go:67
GetRLock(c, k) ==
  /\ pc[c] = "idle"
  /\ ~mu.pending
  /\ mu' = [mu EXCEPT !.readers = @ + 1]
  /\ pc' = [pc EXCEPT ![c] = "get_read"]
  /\ op' = [op EXCEPT ![c] = "Get"]
  /\ key' = [key EXCEPT ![c] = k]
  /\ UNCHANGED << fvars, urls, installs, rvars, url, cnt, err, calls, hit,
                  pushed >>

\* the body of Get, store.go:69-73, and the deferred s.mu.RUnlock()
GetRead(c) ==
  /\ pc[c] = "get_read"
  /\ LET r == Get(urls, key[c], url[c])
     IN  /\ url' = [url EXCEPT ![c] = r.url]
         /\ err' = [err EXCEPT ![c] = r.err]
  /\ mu' = [mu EXCEPT !.readers = @ - 1]
  /\ pc' = [pc EXCEPT ![c] = "returned"]
  /\ UNCHANGED << fvars, urls, installs, rvars, op, key, cnt, calls, hit,
                  pushed >>

\* Count(): s.mu.RLock() of store.go:98
CountRLock(c) ==
  /\ pc[c] = "idle"
  /\ ~mu.pending
  /\ mu' = [mu EXCEPT !.readers = @ + 1]
  /\ pc' = [pc EXCEPT ![c] = "count_read"]
  /\ op' = [op EXCEPT ![c] = "Count"]
  /\ UNCHANGED << fvars, urls, installs, rvars, key, url, cnt, err, calls,
                  hit, pushed >>

\* return len(s.urls), store.go:100, and the deferred s.mu.RUnlock()
CountRead(c) ==
  /\ pc[c] = "count_read"
  /\ cnt' = [cnt EXCEPT ![c] = Count(urls)]
  /\ mu' = [mu EXCEPT !.readers = @ - 1]
  /\ pc' = [pc EXCEPT ![c] = "returned"]
  /\ UNCHANGED << fvars, urls, installs, rvars, op, key, url, err, calls,
                  hit, pushed >>

\* Set(shortURL, longURL): s.mu.Lock() of store.go:79 is entered
SetLock(c, k, u) ==
  /\ pc[c] = "idle"
  /\ ~mu.pending
  /\ mu' = [mu EXCEPT !.pending = TRUE]
  /\ pc' = [pc EXCEPT ![c] = "set_lock"]
  /\ op' = [op EXCEPT ![c] = "Set"]
  /\ key' = [key EXCEPT ![c] = k]
  /\ url' = [url EXCEPT ![c] = u]
  /\ UNCHANGED << fvars, urls, installs, rvars, cnt, err, calls, hit,
                  pushed >>

\* Delete(shortURL): s.mu.Lock() of store.go:91 is entered
DeleteLock(c, k) ==
  /\ pc[c] = "idle"
  /\ ~mu.pending
  /\ mu' = [mu EXCEPT !.pending = TRUE]
  /\ pc' = [pc EXCEPT ![c] = "del_lock"]
  /\ op' = [op EXCEPT ![c] = "Delete"]
  /\ key' = [key EXCEPT ![c] = k]
  /\ UNCHANGED << fvars, urls, installs, rvars, url, cnt, err, calls, hit,
                  pushed >>

\* a Lock that returns without waiting for the readers to leave
LockAcquireEarly(c) ==
  /\ pc[c] \in {"set_lock", "del_lock"}
  /\ mu' = [mu EXCEPT !.writer = TRUE]
  /\ pc' = [pc EXCEPT ![c] = IF pc[c] = "set_lock" THEN "set_check"
                             ELSE "del_body"]
  /\ UNCHANGED << fvars, urls, installs, rvars, op, key, url, cnt, err,
                  calls, hit, pushed >>

\* s.mu.Lock() of store.go:79 and 91 returns: no reader holds the lock
LockAcquire(c) ==
  /\ pc[c] \in {"set_lock", "del_lock"}
  /\ mu.readers = 0
  /\ mu' = [mu EXCEPT !.writer = TRUE]
  /\ pc' = [pc EXCEPT ![c] = IF pc[c] = "set_lock" THEN "set_check"
                             ELSE "del_body"]
  /\ UNCHANGED << fvars, urls, installs, rvars, op, key, url, cnt, err,
                  calls, hit, pushed >>

\* the presence check of Set, store.go:82-84: a present key returns the
\* error, the deferred s.mu.Unlock() running on the way out
SetCheck(c) ==
  /\ pc[c] = "set_check"
  /\ IF key[c] \in DOMAIN urls
     THEN /\ err' = [err EXCEPT ![c] = ErrAlreadyExists]
          /\ mu' = Unlocked
          /\ pc' = [pc EXCEPT ![c] = "returned"]
     ELSE /\ pc' = [pc EXCEPT ![c] = "set_insert"]
          /\ UNCHANGED << err, mu >>
  /\ UNCHANGED << fvars, urls, installs, rvars, op, key, url, cnt, calls,
                  hit, pushed >>

\* s.urls[*shortURL] = *longURL; return nil, store.go:85-86, and the
\* deferred s.mu.Unlock()
SetInsert(c) ==
  /\ pc[c] = "set_insert"
  /\ urls' = [x \in DOMAIN urls \cup {key[c]} |->
                IF x = key[c] THEN url[c] ELSE urls[x]]
  /\ installs' = IF key[c] \in DOMAIN urls THEN installs
                 ELSE Append(installs, key[c])
  /\ err' = [err EXCEPT ![c] = Nil]
  /\ mu' = Unlocked
  /\ pc' = [pc EXCEPT ![c] = "returned"]
  /\ UNCHANGED << fvars, rvars, op, key, url, cnt, calls, hit, pushed >>

\* delete(s.urls, shortURL), store.go:93, and the deferred s.mu.Unlock()
DeleteBody(c) ==
  /\ pc[c] = "del_body"
  /\ urls' = [x \in DOMAIN urls \ {key[c]} |-> urls[x]]
  /\ installs' = SelectSeq(installs, LAMBDA x : x # key[c])
  /\ mu' = Unlocked
  /\ pc' = [pc EXCEPT ![c] = "returned"]
  /\ UNCHANGED << fvars, rvars, op, key, url, cnt, err, calls, hit, pushed >>

NextLock ==
  \/ \E c \in LockCallers, k \in GetKeys : GetRLock(c, k)
  \/ \E c \in LockCallers : GetRead(c)
  \/ \E c \in LockCallers : CountRLock(c)
  \/ \E c \in LockCallers : CountRead(c)
  \/ \E c \in LockCallers, k \in GetKeys, u \in URLs : SetLock(c, k, u)
  \/ \E c \in LockCallers, k \in GetKeys : DeleteLock(c, k)
  \/ \E c \in LockCallers : LockAcquire(c)
  \/ \E c \in LockCallers : SetCheck(c)
  \/ \E c \in LockCallers : SetInsert(c)
  \/ \E c \in LockCallers : DeleteBody(c)

SpecLock == InitLock /\ [][NextLock]_vars

\* c is inside the critical section of Set or Delete
Exclusive(c) == pc[c] \in {"set_check", "set_insert", "del_body"}
\* c is inside the critical section of Get or Count
Shared(c) == pc[c] \in {"get_read", "count_read"}

\* C17: lock discipline. At most one Set or Delete is inside its critical
\* section, and no Get or Count is inside its own at the same time; the lock
\* word agrees with who is inside; and a Set that has passed its presence
\* check inserts into the map it checked: the key is still absent and the
\* insertion adds that key and changes no other entry.
C17_LockDiscipline ==
  [][ /\ \A c, d \in LockCallers : (Exclusive(c) /\ Exclusive(d)) => c = d
      /\ \A c, d \in LockCallers : Exclusive(c) => ~Shared(d)
      /\ mu.writer = (\E c \in LockCallers : Exclusive(c))
      /\ mu.readers = Cardinality({ c \in LockCallers : Shared(c) })
      /\ \A c \in LockCallers :
           pc[c] = "set_insert" =>
             /\ key[c] \notin DOMAIN urls
             /\ pc'[c] # pc[c] =>
                  /\ DOMAIN urls' = DOMAIN urls \cup {key[c]}
                  /\ urls'[key[c]] = url[c]
                  /\ \A x \in DOMAIN urls : urls'[x] = urls[x] ]_vars

\* C17 witness: a Get and a Count hold the lock in shared mode at the same
\* time while a Set, which goes on to insert its key, waits for them
C17_Witness ==
  \E c, d, e \in LockCallers :
    /\ pc[c] = "get_read"
    /\ pc[d] = "count_read"
    /\ pc[e] = "set_lock"
    /\ key[e] \notin DOMAIN urls

====
